---- MODULE Spec2Model ----
(***************************************************************************)
(* A model of src/main.rs: the scene loader xml_parser, the render driver  *)
(* in main (file header, the scanline loop with its parallel per-pixel     *)
(* tasks, the ordered write-out) and the integrator ray_color.             *)
(*                                                                         *)
(* Four specifications share the definitions:                              *)
(*   SpecParse  main up to the return of xml_parser, over every scene      *)
(*              document of at most MaxElems nodes;                        *)
(*   Spec       the whole of main over the documents of Scenes, one        *)
(*              iteration of a closure's sample loop per step;             *)
(*   SpecPixel  one closure of the parallel map alone, each iteration of   *)
(*              its sample loop in two steps (the ray, then the sample);   *)
(*   SpecRay    one call of ray_color, every hit / scatter outcome drawn   *)
(*              nondeterministically.                                      *)
(*                                                                         *)
(* Reals are modelled exactly, as fractions <<num, den>> in lowest terms;   *)
(* f64 rounding is not modelled.                                           *)
(***************************************************************************)
EXTENDS Integers, Sequences, FiniteSets, Bags, TLC

VARIABLES
    \* main: control and input
    pc,          \* position in main / xml_parser
    panicMsg,    \* message of the panic that aborted the process ("" if none)
    scene,       \* the scene file: [wellformed, nodes] (nodes in document order)
    cursor,      \* number of nodes of doc.descendants() already visited
    \* xml_parser locals
    img_name, lookfrom, lookat, vup, aperture, world, last_mat,
    nextArc,     \* identity given to the next Arc::new allocation
    cam,         \* Option<Camera>: <<>> until Camera::new has run
    \* render driver
    out,         \* lines written to new_file, in order
    j,           \* current scanline
    tasks,       \* per column i: the closure instance of the parallel map
    finished,    \* columns of the current scanline in the order their tasks returned
    scanline,    \* Option<Vec<Color>>: the collected row
    k,           \* next index of the write loop over scanline
    \* ray_color
    rpc, stack, retval, nHit, nScatter, trace, call, underflow

mainVars  == <<pc, panicMsg, scene, cursor>>
parseVars == <<img_name, lookfrom, lookat, vup, aperture, world, last_mat, nextArc, cam>>
rendVars  == <<out, j, tasks, finished, scanline, k>>
rayVars   == <<rpc, stack, retval, nHit, nScatter, trace, call, underflow>>
vars      == <<mainVars, parseVars, rendVars, rayVars>>

----------------------------------------------------------------------------
(* Bounds of the model *)

\* longest scene document of SpecParse
MaxElems == 3

\* the image width (1200 in the source), from which the height derives
IMAGE_WIDTH == 3

\* samples per pixel (500 in the source)
SAMPLES_PER_PIXEL == 2

\* bounce limit handed to ray_color (50 in the source)
MAX_DEPTH == 3

\* rng.gen::<f64>() is drawn from { n / JitterDen : 0 <= n < JitterDen }
JitterDen == 3

----------------------------------------------------------------------------
(* Option and Result values *)

None == <<>>
Some(x) == <<x>>

Ok(v) == [ok |-> TRUE, v |-> v, msg |-> ""]
Err(m) == [ok |-> FALSE, v |-> <<>>, msg |-> m]

----------------------------------------------------------------------------
(* Reals: <<num, den>> with den > 0, in lowest terms *)

\* the greatest common divisor of n and d, d > 0
GCD(n, d) ==
    LET common == { g \in 1 .. d : n % g = 0 /\ d % g = 0 }
    IN  CHOOSE g \in common : \A h \in common : h <= g

\* n / d in lowest terms (the singleton sets bind the values of n and d once)
Frac(n, d) ==
    CHOOSE q \in { <<x \div GCD(x, y), y \div GCD(x, y)>> : x \in {n}, y \in {d} } : TRUE

R(n) == <<n, 1>>
RAdd(a, b) == Frac(a[1] * b[2] + b[1] * a[2], a[2] * b[2])
RSub(a, b) == Frac(a[1] * b[2] - b[1] * a[2], a[2] * b[2])
RMul(a, b) == Frac(a[1] * b[1], a[2] * b[2])
RLeq(a, b) == a[1] * b[2] <= b[1] * a[2]
RLess(a, b) == a[1] * b[2] < b[1] * a[2]

----------------------------------------------------------------------------
(* Scene documents.  An attribute value is the sequence of its            *)
(* whitespace-separated words; a node is [tag, attrs] with attrs a         *)
(* function from the attribute names present to their values.             *)

NumTokens == {"0", "1", "2"}

\* str::parse::<f64> succeeds on the word
IsF64(tok) == tok \in NumTokens

\* the number str::parse::<f64> returns
ParseF64(tok) == CASE tok = "0" -> R(0) [] tok = "1" -> R(1) [] tok = "2" -> R(2)

Node(tag, attrs) == [tag |-> tag, attrs |-> attrs]
NoAttrs == [n \in {} |-> <<>>]

\* node.attribute(name)
Attr(node, name) ==
    IF name \in DOMAIN node.attrs THEN Some(node.attrs[name]) ELSE None

\* fn value_parser: the first three words as numbers; indexing panics on
\* fewer than three words, expect panics on a word that is no number.
value_parser(values) ==
    IF Len(values) < 1 THEN Err("index out of bounds")
    ELSE IF ~IsF64(values[1]) THEN Err("Failed to parse number 1")
    ELSE IF Len(values) < 2 THEN Err("index out of bounds")
    ELSE IF ~IsF64(values[2]) THEN Err("Failed to parse number 2")
    ELSE IF Len(values) < 3 THEN Err("index out of bounds")
    ELSE IF ~IsF64(values[3]) THEN Err("Failed to parse number 3")
    ELSE Ok(<<ParseF64(values[1]), ParseF64(values[2]), ParseF64(values[3])>>)

\* attr.parse().expect(msg) of a scalar attribute: the whole value is one number
parse_scalar(value, msg) ==
    IF Len(value) = 1 /\ IsF64(value[1]) THEN Ok(ParseF64(value[1])) ELSE Err(msg)

V000 == <<"0", "0", "0">>
V010 == <<"0", "1", "0">>
V121 == <<"1", "2", "1">>

FilmNamed   == Node("film", "filename" :> <<"out.ppm">>)
FilmNoName  == Node("film", NoAttrs)
CameraFull  == Node("camera", "look_from" :> V121 @@ "look_at" :> V000
                               @@ "up" :> V010 @@ "aperture" :> <<"0">>)
MatLambert  == Node("material", "type" :> <<"lambertian">> @@ "color" :> V121)
MatLambertNoColor == Node("material", "type" :> <<"lambertian">>)
MatMetal    == Node("material", "type" :> <<"metal">> @@ "color" :> V010
                                 @@ "fuzz" :> <<"1">>)
MatGlass    == Node("material", "type" :> <<"dielectric">> @@ "refrect_idx" :> <<"2">>)
ObjectA     == Node("object", "center" :> V010 @@ "radius" :> <<"1">>)
ObjectB     == Node("object", "center" :> V121 @@ "radius" :> <<"2">>)
SceneRoot   == Node("scene", NoAttrs)

\* a node with one of its attributes removed
Without(node, name) ==
    Node(node.tag, [n \in (DOMAIN node.attrs) \ {name} |-> node.attrs[n]])

\* a node with one attribute set
With(node, name, value) ==
    Node(node.tag, [n \in (DOMAIN node.attrs) \cup {name} |->
                        IF n = name THEN value ELSE node.attrs[n]])

\* nodes xml_parser accepts
GoodNodes ==
    { FilmNamed, FilmNoName, CameraFull, MatLambert, MatLambertNoColor,
      MatMetal, MatGlass, ObjectA, ObjectB, SceneRoot }

\* nodes with a missing required attribute or an unknown material kind
MissingNodes ==
    { Without(CameraFull, a) : a \in {"look_from", "look_at", "up", "aperture"} }
    \cup { Without(MatLambert, "type"), With(MatLambert, "type", <<"plastic">>),
           Without(MatMetal, "fuzz"), Without(MatGlass, "refrect_idx"),
           Without(ObjectA, "center"), Without(ObjectA, "radius") }

\* nodes whose attribute values do not parse
MalformedNodes ==
    { With(ObjectA, "center", <<"0", "1">>), With(ObjectA, "radius", <<"x">>) }

BadNodes == MissingNodes \cup MalformedNodes

\* the nodes the documents of SpecParse are made of: every accepted node and
\* one rejected node of each kind
DocNodes ==
    GoodNodes \cup { Without(CameraFull, "up"), With(MatLambert, "type", <<"plastic">>),
                     Without(ObjectA, "radius"), With(ObjectA, "center", <<"0", "1">>) }

RECURSIVE SeqsUpTo(_, _)
SeqsUpTo(S, n) ==
    IF n = 0 THEN { <<>> }
    ELSE LET shorter == SeqsUpTo(S, n - 1)
         IN  shorter \cup { Append(s, x) : s \in shorter, x \in S }

WellFormed(nodes) == [wellformed |-> TRUE, nodes |-> nodes]
\* a file that is not well-formed XML
BrokenXml == [wellformed |-> FALSE, nodes |-> <<>>]

----------------------------------------------------------------------------
(* Data model: vectors, materials, spheres, world, camera *)

Vec3_new(x, y, z) == <<x, y, z>>
Zero3 == Vec3_new(R(0), R(0), R(0))

\* Arc::new(Lambertian::new(albedo)), the allocation identified by id
Lambertian_new(id, albedo) ==
    [id |-> id, kind |-> "lambertian", albedo |-> albedo, fuzz |-> R(0), ir |-> R(0)]

\* Arc::new(Metal::new(albedo, fuzz))
Metal_new(id, albedo, fuzz) ==
    [id |-> id, kind |-> "metal", albedo |-> albedo, fuzz |-> fuzz, ir |-> R(0)]

\* Arc::new(Dielectric::new(ir))
Dielectric_new(id, ir) ==
    [id |-> id, kind |-> "dielectric", albedo |-> Zero3, fuzz |-> R(0), ir |-> ir]

\* Sphere::new(center, radius, mat): mat is the shared Arc, not a copy
Sphere_new(center, radius, mat) == [center |-> center, radius |-> radius, mat |-> mat]

\* World::new()
World_new == <<>>

\* world.push(Box::new(sphere))
world_push(w, sphere) == Append(w, sphere)

GROUND_ARC == 1
BLACK_ARC == 2
FIRST_FREE_ARC == 3

GROUND_RADIUS == 1000
Half == Frac(1, 2)

ground_mat == Lambertian_new(GROUND_ARC, Vec3_new(Half, Half, Half))
ground_sphere ==
    Sphere_new(Vec3_new(R(0), R(-GROUND_RADIUS), R(0)), R(GROUND_RADIUS), ground_mat)
initial_last_mat == Lambertian_new(BLACK_ARC, Zero3)

\* the object arm hands Sphere::new the material xml_parser started with
arc_clone_initial(mat) == initial_last_mat

\* last_mat.clone(): another handle on the same allocation
arc_clone(mat) == mat

\* the object arm pushes onto a world made anew
add_object_fresh(w, sphere) == world_push(World_new, sphere)

\* world.push(Box::new(new_obj)) of the object arm
add_object(w, sphere) == world_push(w, sphere)

VFOV == 20
DIST_TO_FOCUS == 10
ASPECT_NUM == 3
ASPECT_DEN == 2

\* Camera::new(lookfrom, lookat, vup, vfov, aspect_ratio, aperture, dist_to_focus)
Camera_new(lf, la, up, ap) ==
    [lookfrom |-> lf, lookat |-> la, vup |-> up, vfov |-> R(VFOV),
     aspect_ratio |-> Frac(ASPECT_NUM, ASPECT_DEN), aperture |-> ap,
     dist_to_focus |-> R(DIST_TO_FOCUS)]

----------------------------------------------------------------------------
(* xml_parser: what each arm of the match computes from a node *)

\* "film": the output name
film_name(node) ==
    IF Attr(node, "filename") # None THEN Attr(node, "filename")[1]
    ELSE <<"default.ppm">>

\* "camera": the four required attributes, checked in source order
camera_attrs(node) ==
    LET lf == Attr(node, "look_from")
        la == Attr(node, "look_at")
        up == Attr(node, "up")
        ap == Attr(node, "aperture")
    IN  IF lf = None THEN Err("Missing camera look from position!")
        ELSE IF ~value_parser(lf[1]).ok THEN value_parser(lf[1])
        ELSE IF la = None THEN Err("Missing camera look at position!")
        ELSE IF ~value_parser(la[1]).ok THEN value_parser(la[1])
        ELSE IF up = None THEN Err("Missing camera up position!")
        ELSE IF ~value_parser(up[1]).ok THEN value_parser(up[1])
        ELSE IF ap = None THEN Err("Missing camera aperture!")
        ELSE IF ~parse_scalar(ap[1], "Failed to parse camera aperture.").ok
             THEN parse_scalar(ap[1], "Failed to parse camera aperture.")
        ELSE Ok([lookfrom |-> value_parser(lf[1]).v,
                 lookat   |-> value_parser(la[1]).v,
                 vup      |-> value_parser(up[1]).v,
                 aperture |-> parse_scalar(ap[1], "").v])

\* "material": the material the element builds, allocated as Arc id
material_of(node, id) ==
    LET ty  == Attr(node, "type")
        col == Attr(node, "color")
        fz  == Attr(node, "fuzz")
        ri  == Attr(node, "refrect_idx")
        color == IF col = None THEN Zero3 ELSE value_parser(col[1]).v
    IN  IF ty = None THEN Err("Missing material type!")
        ELSE IF col # None /\ ~value_parser(col[1]).ok THEN value_parser(col[1])
        ELSE IF ty[1] = <<"lambertian">> THEN Ok(Lambertian_new(id, color))
        ELSE IF ty[1] = <<"metal">> THEN
            IF fz = None THEN Err("Missing material fuzziness.")
            ELSE IF ~parse_scalar(fz[1], "Failed to parse material fuzziness.").ok
                 THEN parse_scalar(fz[1], "Failed to parse material fuzziness.")
            ELSE Ok(Metal_new(id, color, parse_scalar(fz[1], "").v))
        ELSE IF ty[1] = <<"dielectric">> THEN
            IF ri = None THEN Err("Missing material refrective index.")
            ELSE IF ~parse_scalar(ri[1], "Failed to parse material refrective index.").ok
                 THEN parse_scalar(ri[1], "Failed to parse material refrective index.")
            ELSE Ok(Dielectric_new(id, parse_scalar(ri[1], "").v))
        ELSE Err("The material doesn't exists!.")

\* "object": the sphere the element adds, bound to the current material
object_of(node, mat) ==
    LET ce == Attr(node, "center")
        ra == Attr(node, "radius")
    IN  IF ce = None THEN Err("Missing object center!")
        ELSE IF ~value_parser(ce[1]).ok THEN value_parser(ce[1])
        ELSE IF ra = None THEN Err("Missing object radius.")
        ELSE IF ~parse_scalar(ra[1], "Failed to parse object radius.").ok
             THEN parse_scalar(ra[1], "Failed to parse object radius.")
        ELSE Ok(Sphere_new(value_parser(ce[1]).v, parse_scalar(ra[1], "").v, arc_clone(mat)))

----------------------------------------------------------------------------
(* main up to the return of xml_parser *)

ParserInit ==
    /\ img_name = <<>>
    /\ lookfrom = Zero3
    /\ lookat = Zero3
    /\ vup = Zero3
    /\ aperture = R(0)
    /\ world = World_new
    /\ last_mat = initial_last_mat
    /\ nextArc = FIRST_FREE_ARC
    /\ cam = None

Panic(msg) ==
    /\ pc' = "panic"
    /\ panicMsg' = msg
    /\ UNCHANGED <<scene, cursor, parseVars, rendVars, rayVars>>

\* File::open(..).expect / read_to_string(..).expect: the environment decides
OpenScene ==
    /\ pc = "start"
    /\ \E ok \in BOOLEAN :
          IF ok THEN /\ pc' = "xml"
                     /\ UNCHANGED <<panicMsg, scene, cursor, parseVars, rendVars, rayVars>>
          ELSE Panic("Unable to open file.")

\* Document::parse(xml).expect, then the locals of xml_parser up to the
\* push of the ground sphere
ParseXml ==
    /\ pc = "xml"
    /\ IF scene.wellformed
       THEN /\ pc' = "nodes"
            /\ world' = world_push(world, ground_sphere)
            /\ UNCHANGED <<panicMsg, scene, cursor, img_name, lookfrom, lookat, vup,
                           aperture, last_mat, nextArc, cam, rendVars, rayVars>>
       ELSE Panic("Failed to parse XML")

InLoop == pc = "nodes" /\ cursor < Len(scene.nodes)
CurNode == scene.nodes[cursor + 1]
Advance == cursor' = cursor + 1 /\ UNCHANGED <<pc, panicMsg, scene>>

NodeFilm ==
    /\ InLoop /\ CurNode.tag = "film"
    /\ img_name' = film_name(CurNode)
    /\ Advance
    /\ UNCHANGED <<lookfrom, lookat, vup, aperture, world, last_mat, nextArc, cam,
                   rendVars, rayVars>>

NodeCamera ==
    /\ InLoop /\ CurNode.tag = "camera"
    /\ LET r == camera_attrs(CurNode)
       IN  IF r.ok
           THEN /\ lookfrom' = r.v.lookfrom
                /\ lookat' = r.v.lookat
                /\ vup' = r.v.vup
                /\ aperture' = r.v.aperture
                /\ Advance
                /\ UNCHANGED <<img_name, world, last_mat, nextArc, cam, rendVars, rayVars>>
           ELSE Panic(r.msg)

NodeMaterial ==
    /\ InLoop /\ CurNode.tag = "material"
    /\ LET r == material_of(CurNode, nextArc)
       IN  IF r.ok
           THEN /\ last_mat' = r.v
                /\ nextArc' = nextArc + 1
                /\ Advance
                /\ UNCHANGED <<img_name, lookfrom, lookat, vup, aperture, world, cam,
                               rendVars, rayVars>>
           ELSE Panic(r.msg)

NodeObject ==
    /\ InLoop /\ CurNode.tag = "object"
    /\ LET r == object_of(CurNode, last_mat)
       IN  IF r.ok
           THEN /\ world' = add_object(world, r.v)
                /\ Advance
                /\ UNCHANGED <<img_name, lookfrom, lookat, vup, aperture, last_mat,
                               nextArc, cam, rendVars, rayVars>>
           ELSE Panic(r.msg)

\* any other element, and text nodes
NodeOther ==
    /\ InLoop /\ CurNode.tag \notin {"film", "camera", "material", "object"}
    /\ Advance
    /\ UNCHANGED <<parseVars, rendVars, rayVars>>

\* the end of the traversal: Camera::new and the return to main
ParseFinish ==
    /\ pc = "nodes" /\ cursor = Len(scene.nodes)
    /\ cam' = Some(Camera_new(lookfrom, lookat, vup, aperture))
    /\ pc' = "parsed"
    /\ UNCHANGED <<panicMsg, scene, cursor, img_name, lookfrom, lookat, vup, aperture,
                   world, last_mat, nextArc, rendVars, rayVars>>

----------------------------------------------------------------------------
(* main: the image and the render driver *)

\* const IMAGE_HEIGHT = ((IMAGE_WIDTH as f64) / ASPECT_RATIO) as u64:
\* the quotient w / (3/2), truncated
image_height(w) == (w * ASPECT_DEN) \div ASPECT_NUM

IMAGE_HEIGHT == image_height(IMAGE_WIDTH)

\* the image width of the source
REF_IMAGE_WIDTH == 1200

Columns == 0 .. (IMAGE_WIDTH - 1)

\* rng.gen::<f64>(): uniform in [0, 1)
Jitter == { Frac(n, JitterDen) : n \in 0 .. (JitterDen - 1) }

\* the normalized coordinates of one sample of pixel (i, jj):
\* u = (i + random_u) / (IMAGE_WIDTH - 1), v = (jj + random_v) / (IMAGE_HEIGHT - 1)
sample_uv(i, jj, random_u, random_v) ==
    << RMul(RAdd(R(i), random_u), Frac(1, IMAGE_WIDTH - 1)),
       RMul(RAdd(R(jj), random_v), Frac(1, IMAGE_HEIGHT - 1)) >>

\* cam.get_ray(u, v): the ray through image-plane point (s, t)
get_ray(c, u, v) == [s |-> u, t |-> v]

Floor(x) == x[1] \div x[2]

\* the pixel whose cell holds the image-plane point of ray r
pixel_of(r) ==
    << Floor(RMul(r.s, R(IMAGE_WIDTH - 1))), Floor(RMul(r.t, R(IMAGE_HEIGHT - 1))) >>

\* ray_color(&r, &world, depth) as the driver sees it: one sample, known by the
\* pixel its ray was generated for and by the depth it was taken with
ray_color_sample(r, w, depth) == [px |-> pixel_of(r), depth |-> depth]

\* Color::new(0.0, 0.0, 0.0) as a sum of samples: the empty sum
black_sum == EmptyBag

\* pixel_color = sample
add_sample_overwrite(pixel_color, sample) == SetToBag({sample})

\* pixel_color += sample
add_sample(pixel_color, sample) == pixel_color (+) SetToBag({sample})

\* the closure of the parallel map, before it runs
IdleTask == [st |-> "idle", n |-> 0, pixel_color |-> black_sum, ray |-> None]

\* a collect that keeps the order the tasks returned in
collect_by_completion(ts, order) ==
    [n \in 1 .. IMAGE_WIDTH |-> ts[order[n]].pixel_color]

\* collect(): the Vec<Color> of the row, element i from the task of column i
\* whatever order the tasks returned in
collect(ts, order) == [n \in 1 .. IMAGE_WIDTH |-> ts[n - 1].pixel_color]

\* pixel_color.format_color(samples): the text of one pixel line
format_color(pixel_color, samples) ==
    [kind |-> "pixel", color |-> pixel_color, samples |-> samples]

\* the three header lines, by position
header_line(n) ==
    CASE n = 0 -> [kind |-> "text", text |-> <<"P3">>]
      [] n = 1 -> [kind |-> "dims", width |-> IMAGE_WIDTH, height |-> IMAGE_HEIGHT]
      [] n = 2 -> [kind |-> "text", text |-> <<"255">>]

HEADER_LINES == 3

\* (0..IMAGE_HEIGHT).rev(): the first row, and the row after row jj (None at the end)
first_row == IF IMAGE_HEIGHT > 0 THEN Some(IMAGE_HEIGHT - 1) ELSE None

\* a row loop that stops one row early
next_row_short(jj) == IF jj > 1 THEN Some(jj - 1) ELSE None

next_row(jj) == IF jj > 0 THEN Some(jj - 1) ELSE None

RenderInit ==
    /\ out = <<>>
    /\ j = 0
    /\ tasks = [i \in Columns |-> IdleTask]
    /\ finished = <<>>
    /\ scanline = None
    /\ k = 0

\* File::create(&img_name).expect: fails on the empty name, and when the
\* environment refuses
CreateFile ==
    /\ pc = "parsed"
    /\ \E ok \in BOOLEAN :
          IF ok /\ img_name # <<>>
          THEN /\ pc' = "header"
               /\ UNCHANGED <<panicMsg, scene, cursor, parseVars, rendVars, rayVars>>
          ELSE Panic("Failed to create file.")

\* one writeln! of the header
WriteHeader ==
    /\ pc = "header"
    /\ out' = Append(out, header_line(Len(out)))
    /\ IF Len(out') < HEADER_LINES
       THEN UNCHANGED <<pc, j>>
       ELSE IF first_row = None THEN pc' = "finish" /\ UNCHANGED j
       ELSE pc' = "row" /\ j' = first_row[1]
    /\ UNCHANGED <<panicMsg, scene, cursor, parseVars, tasks, finished, scanline, k,
                   rayVars>>

\* the head of the row loop: the progress line, and the parallel map is set up
BeginRow ==
    /\ pc = "row"
    /\ tasks' = [i \in Columns |-> IdleTask]
    /\ finished' = <<>>
    /\ scanline' = None
    /\ pc' = "map"
    /\ UNCHANGED <<panicMsg, scene, cursor, parseVars, out, j, k, rayVars>>

TaskFrame == UNCHANGED <<mainVars, parseVars, out, j, scanline, k, rayVars>>

\* a worker thread takes the closure of column i: pixel_color starts black
TaskStart(i) ==
    /\ pc = "map" /\ tasks[i].st = "idle"
    /\ tasks' = [tasks EXCEPT ![i] = [st |-> "run", n |-> 0,
                                      pixel_color |-> black_sum, ray |-> None]]
    /\ UNCHANGED finished
    /\ TaskFrame

\* one iteration of the sample loop
TaskSample(i) ==
    /\ pc = "map" /\ tasks[i].st = "run"
    /\ tasks[i].n < SAMPLES_PER_PIXEL /\ tasks[i].ray = None
    /\ \E random_u \in Jitter, random_v \in Jitter :
          LET uv == sample_uv(i, j, random_u, random_v)
              r  == get_ray(cam[1], uv[1], uv[2])
          IN  tasks' = [tasks EXCEPT
                          ![i].pixel_color =
                              add_sample(@, ray_color_sample(r, world, MAX_DEPTH)),
                          ![i].n = @ + 1]
    /\ UNCHANGED finished
    /\ TaskFrame

\* the same iteration in two steps.  First: the jitter, u and v, cam.get_ray
SampleGetRay(i) ==
    /\ pc = "map" /\ tasks[i].st = "run"
    /\ tasks[i].n < SAMPLES_PER_PIXEL /\ tasks[i].ray = None
    /\ \E random_u \in Jitter, random_v \in Jitter :
          LET uv == sample_uv(i, j, random_u, random_v)
          IN  tasks' = [tasks EXCEPT ![i].ray = Some(get_ray(cam[1], uv[1], uv[2]))]
    /\ UNCHANGED finished
    /\ TaskFrame

\* Second: pixel_color += ray_color(&r, &world, MAX_DEPTH)
SampleAccumulate(i) ==
    /\ pc = "map" /\ tasks[i].st = "run" /\ tasks[i].ray # None
    /\ tasks' = [tasks EXCEPT
                   ![i].pixel_color =
                       add_sample(@, ray_color_sample(tasks[i].ray[1], world, MAX_DEPTH)),
                   ![i].n = @ + 1,
                   ![i].ray = None]
    /\ UNCHANGED finished
    /\ TaskFrame

\* the closure returns pixel_color
TaskReturn(i) ==
    /\ pc = "map" /\ tasks[i].st = "run"
    /\ tasks[i].n = SAMPLES_PER_PIXEL /\ tasks[i].ray = None
    /\ tasks' = [tasks EXCEPT ![i].st = "done"]
    /\ finished' = Append(finished, i)
    /\ TaskFrame

\* collect() returns once every closure has returned
Collect ==
    /\ pc = "map" /\ \A i \in Columns : tasks[i].st = "done"
    /\ scanline' = Some(collect(tasks, finished))
    /\ k' = 0
    /\ pc' = "write"
    /\ UNCHANGED <<panicMsg, scene, cursor, parseVars, out, j, tasks, finished, rayVars>>

\* one iteration of the write loop over scanline
WriteLine ==
    /\ pc = "write" /\ k < Len(scanline[1])
    /\ out' = Append(out, format_color(scanline[1][k + 1], SAMPLES_PER_PIXEL))
    /\ k' = k + 1
    /\ UNCHANGED <<mainVars, parseVars, j, tasks, finished, scanline, rayVars>>

\* the write loop is over: the next row, or the end of the row loop
EndRow ==
    /\ pc = "write" /\ k = Len(scanline[1])
    /\ IF next_row(j) = None THEN pc' = "finish" /\ UNCHANGED j
       ELSE pc' = "row" /\ j' = next_row(j)[1]
    /\ UNCHANGED <<panicMsg, scene, cursor, parseVars, out, tasks, finished, scanline, k,
                   rayVars>>

\* eprintln!("Done.")
Done ==
    /\ pc = "finish"
    /\ pc' = "done"
    /\ UNCHANGED <<panicMsg, scene, cursor, parseVars, rendVars, rayVars>>

----------------------------------------------------------------------------
(* ray_color(r, world, depth): one call, evaluated frame by frame.  A ray   *)
(* is known by the y component of its unit direction, the only thing        *)
(* ray_color reads from it; what world.hit and scatter answer is drawn      *)
(* nondeterministically and recorded in trace.                              *)

Color_new(r, g, b) == <<r, g, b>>
Black == Color_new(R(0), R(0), R(0))
White == Color_new(R(1), R(1), R(1))
Sky == Color_new(Frac(1, 2), Frac(7, 10), R(1))

\* Color * Color, component-wise
CMul(a, b) == <<RMul(a[1], b[1]), RMul(a[2], b[2]), RMul(a[3], b[3])>>
\* f64 * Color
CScale(t, c) == <<RMul(t, c[1]), RMul(t, c[2]), RMul(t, c[3])>>
\* Color + Color
CAdd(a, b) == <<RAdd(a[1], b[1]), RAdd(a[2], b[2]), RAdd(a[3], b[3])>>

\* the y components of unit directions the model draws rays from
Rays == { [y |-> R(-1)], [y |-> R(0)], [y |-> R(1)] }

\* the attenuations scatter may return
Attenuations ==
    { Color_new(Half, Half, Half), Color_new(R(0), Half, R(1)) }

\* if depth < 0, never true of a u64
depth_exhausted_never(depth) == FALSE

\* if depth <= 0, on a u64
depth_exhausted(depth) == depth <= 0

\* stands for 2^64 - 1, the value a u64 wraps to below zero
U64_MAX == 2147483647

\* the recursive call handed depth instead of depth - 1
depth_unchanged(depth) == depth

\* depth - 1 on a u64 (a release build wraps; a debug build panics)
depth_minus_one(depth) == IF depth >= 1 THEN depth - 1 ELSE U64_MAX

\* the else branch: the background gradient of ray r
background(r) ==
    LET t == RMul(Half, RAdd(r.y, R(1)))
    IN  CAdd(CScale(RSub(R(1), t), White), CScale(t, Sky))

\* the attenuation is dropped
attenuate_dropped(attenuation, rest) == rest

\* attenuation * ray_color(&scattered, world, depth - 1)
attenuate(attenuation, rest) == CMul(attenuation, rest)

Frame(r, depth) == [ray |-> r, depth |-> depth, att |-> None]
Top == stack[Len(stack)]

RayIdle ==
    /\ rpc = "idle" /\ stack = <<>> /\ retval = Black
    /\ nHit = 0 /\ nScatter = 0 /\ trace = <<>>
    /\ call = [ray |-> [y |-> R(0)], depth |-> 0]
    /\ underflow = FALSE

RayFrame == UNCHANGED <<mainVars, parseVars, rendVars, call>>

\* depth <= 0: black, nothing is queried
RayExhausted ==
    /\ rpc = "call" /\ depth_exhausted(Top.depth)
    /\ retval' = Black
    /\ rpc' = "ret"
    /\ UNCHANGED <<stack, nHit, nScatter, trace, underflow>>
    /\ RayFrame

\* world.hit(r, 0.001, INFINITY) is None: the background
RayMiss ==
    /\ rpc = "call" /\ ~depth_exhausted(Top.depth)
    /\ nHit' = nHit + 1
    /\ trace' = Append(trace, [kind |-> "miss"])
    /\ retval' = background(Top.ray)
    /\ rpc' = "ret"
    /\ UNCHANGED <<stack, nScatter, underflow>>
    /\ RayFrame

\* a hit whose material's scatter is None: black
RayAbsorb ==
    /\ rpc = "call" /\ ~depth_exhausted(Top.depth)
    /\ nHit' = nHit + 1
    /\ nScatter' = nScatter + 1
    /\ trace' = Append(trace, [kind |-> "absorb"])
    /\ retval' = Black
    /\ rpc' = "ret"
    /\ UNCHANGED <<stack, underflow>>
    /\ RayFrame

\* a hit whose material scatters: the recursive call on the scattered ray
RayScatter ==
    /\ rpc = "call" /\ ~depth_exhausted(Top.depth)
    /\ \E attenuation \in Attenuations, scattered \in Rays :
          /\ trace' = Append(trace, [kind |-> "scatter", att |-> attenuation,
                                     ray |-> scattered])
          /\ stack' = Append([stack EXCEPT ![Len(stack)].att = Some(attenuation)],
                             Frame(scattered, depth_minus_one(Top.depth)))
    /\ nHit' = nHit + 1
    /\ nScatter' = nScatter + 1
    /\ underflow' = (underflow \/ Top.depth < 1)
    /\ UNCHANGED <<rpc, retval>>
    /\ RayFrame

\* a recursive call returns: its caller multiplies by the attenuation and
\* returns in turn
RayReturn ==
    /\ rpc = "ret" /\ Len(stack) > 1
    /\ stack' = SubSeq(stack, 1, Len(stack) - 1)
    /\ retval' = attenuate(stack[Len(stack) - 1].att[1], retval)
    /\ UNCHANGED <<rpc, nHit, nScatter, trace, underflow>>
    /\ RayFrame

\* the outermost call returns
RayDone ==
    /\ rpc = "ret" /\ Len(stack) = 1
    /\ stack' = <<>>
    /\ rpc' = "done"
    /\ UNCHANGED <<retval, nHit, nScatter, trace, underflow>>
    /\ RayFrame

----------------------------------------------------------------------------
(* Specifications *)

\* every scene document of at most MaxElems nodes, and a file that is no XML
Docs == { WellFormed(nodes) : nodes \in SeqsUpTo(DocNodes, MaxElems) } \cup { BrokenXml }

\* the scene documents the whole program is run on
Scenes ==
    { WellFormed(<<SceneRoot, FilmNamed, CameraFull, MatLambert, ObjectA, ObjectB,
                   MatMetal, ObjectA, MatGlass, ObjectB>>),
      WellFormed(<<SceneRoot, FilmNamed, ObjectA>>),
      WellFormed(<<SceneRoot, CameraFull, ObjectA>>),
      WellFormed(<<SceneRoot, FilmNoName, CameraFull, MatLambertNoColor, ObjectB>>),
      BrokenXml }
    \cup { WellFormed(<<SceneRoot, FilmNamed, CameraFull, MatMetal, ObjectA, bad, ObjectB>>) :
              bad \in BadNodes }

MainInit(S) ==
    /\ pc = "start" /\ panicMsg = ""
    /\ scene \in S
    /\ cursor = 0
    /\ ParserInit /\ RenderInit /\ RayIdle

ParseNext ==
    \/ OpenScene \/ ParseXml
    \/ NodeFilm \/ NodeCamera \/ NodeMaterial \/ NodeObject \/ NodeOther
    \/ ParseFinish

RenderNext ==
    \/ CreateFile \/ WriteHeader \/ BeginRow
    \/ \E i \in Columns : TaskStart(i)
    \/ \E i \in Columns : TaskSample(i)
    \/ \E i \in Columns : TaskReturn(i)
    \/ Collect \/ WriteLine \/ EndRow \/ Done

Init == MainInit(Scenes)
Next == ParseNext \/ RenderNext
Spec == Init /\ [][Next]_vars

InitParse == MainInit(Docs)
SpecParse == InitParse /\ [][ParseNext]_vars

InitRay ==
    /\ pc = "idle" /\ panicMsg = "" /\ scene = BrokenXml /\ cursor = 0
    /\ ParserInit /\ RenderInit
    /\ \E r \in Rays, depth \in 0 .. MAX_DEPTH :
          /\ call = [ray |-> r, depth |-> depth]
          /\ stack = <<Frame(r, depth)>>
    /\ rpc = "call" /\ retval = Black
    /\ nHit = 0 /\ nScatter = 0 /\ trace = <<>> /\ underflow = FALSE

\* the lines of the rows above row jj, as a finished run writes them
RECURSIVE rows_above(_)
rows_above(jj) ==
    IF jj >= IMAGE_HEIGHT - 1 THEN << >>
    ELSE rows_above(jj + 1) \o
         [n \in 1 .. IMAGE_WIDTH |->
            format_color([s \in {[px |-> <<n - 1, jj + 1>>, depth |-> MAX_DEPTH]}
                             |-> SAMPLES_PER_PIXEL],
                         SAMPLES_PER_PIXEL)]

\* the scene SpecPixel renders
PixelScene == WellFormed(<<FilmNamed, CameraFull>>)

\* main inside the parallel map of some row of PixelScene, the closure of one
\* column just started and the others not yet
InitPixel ==
    /\ pc = "map" /\ panicMsg = ""
    /\ scene = PixelScene /\ cursor = Len(PixelScene.nodes)
    /\ img_name = film_name(FilmNamed)
    /\ lookfrom = camera_attrs(CameraFull).v.lookfrom
    /\ lookat = camera_attrs(CameraFull).v.lookat
    /\ vup = camera_attrs(CameraFull).v.vup
    /\ aperture = camera_attrs(CameraFull).v.aperture
    /\ world = world_push(World_new, ground_sphere)
    /\ last_mat = initial_last_mat
    /\ nextArc = FIRST_FREE_ARC
    /\ cam = Some(Camera_new(lookfrom, lookat, vup, aperture))
    /\ j \in 0 .. (IMAGE_HEIGHT - 1)
    /\ out = [n \in 1 .. HEADER_LINES |-> header_line(n - 1)] \o rows_above(j)
    /\ \E i \in Columns :
          tasks = [c \in Columns |->
                     IF c = i THEN [IdleTask EXCEPT !.st = "run"] ELSE IdleTask]
    /\ finished = <<>> /\ scanline = None /\ k = 0
    /\ RayIdle

PixelNext ==
    \/ \E i \in Columns : SampleGetRay(i)
    \/ \E i \in Columns : SampleAccumulate(i)
    \/ \E i \in Columns : TaskReturn(i)

SpecPixel == InitPixel /\ [][PixelNext]_vars

RayNext ==
    \/ RayExhausted \/ RayMiss \/ RayAbsorb \/ RayScatter \/ RayReturn \/ RayDone

\* a call that has started runs on: its steps are the thread's own
SpecRay == InitRay /\ [][RayNext]_vars /\ WF_vars(RayNext)

----------------------------------------------------------------------------
(* Properties *)

\* the pixel lines written so far, and the pixel the n-th of them (from 0)
\* belongs to in row-major order from the top row
PixelLineCount == IF Len(out) > HEADER_LINES THEN Len(out) - HEADER_LINES ELSE 0
pixel_line(n) == out[HEADER_LINES + 1 + n]
PixelAt(n) == << n % IMAGE_WIDTH, (IMAGE_HEIGHT - 1) - (n \div IMAGE_WIDTH) >>
AllPixels == { <<i, jj>> : i \in Columns, jj \in 0 .. (IMAGE_HEIGHT - 1) }

\* the sum of n samples of pixel px, each taken with depth MAX_DEPTH
SamplesOf(px, n) ==
    IF n = 0 THEN EmptyBag
    ELSE [s \in {[px |-> px, depth |-> MAX_DEPTH]} |-> n]

\* C1: every pixel line written is the line of the pixel its position names:
\* the n-th pixel line (from 0) holds samples of column n mod IMAGE_WIDTH of
\* row IMAGE_HEIGHT-1 - n div IMAGE_WIDTH only, so rows go from the top row
\* down to row 0 and columns ascend within a row, whatever order the tasks
\* of the row returned in.
C1_RowMajorOrder ==
    \A n \in 0 .. (PixelLineCount - 1) :
        /\ pixel_line(n).kind = "pixel"
        /\ pixel_line(n).color # EmptyBag
        /\ \A smp \in BagToSet(pixel_line(n).color) : smp.px = PixelAt(n)

\* a finished render whose last row's tasks returned in descending column order
C1_Witness ==
    /\ pc = "done"
    /\ PixelLineCount = IMAGE_WIDTH * IMAGE_HEIGHT
    /\ \A n \in 1 .. Len(finished) : finished[n] = IMAGE_WIDTH - n

\* what the scene fails to give: a file that is no XML, a node with a missing
\* required attribute, an unknown material kind or a value that does not
\* parse, or no camera element at all
ConfigError(sc) ==
    \/ ~sc.wellformed
    \/ \E n \in 1 .. Len(sc.nodes) : sc.nodes[n] \in BadNodes
    \/ \A n \in 1 .. Len(sc.nodes) : sc.nodes[n].tag # "camera"

RenderingBegun ==
    \/ pc \in {"write", "finish", "done"}
    \/ pc = "map" /\ \E i \in Columns : tasks[i].st # "idle"
    \/ PixelLineCount > 0

\* C2: a scene with malformed or missing scene data never gets to render:
\* no closure of the parallel map starts and no pixel line is written.
C2_ConfigErrorsAbort == ConfigError(scene) => ~RenderingBegun

\* C3: the first three lines written are the header P3 / width height / 255,
\* every later line is a pixel line, and at "Done." there are exactly
\* IMAGE_WIDTH * IMAGE_HEIGHT pixel lines, one for each pixel; for a width of
\* 1200 the height is 800 and the pixel lines number 960000.
C3_HeaderAndCount ==
    /\ \A n \in 1 .. Len(out) :
          IF n <= HEADER_LINES THEN out[n] = header_line(n - 1)
          ELSE out[n].kind = "pixel"
    /\ header_line(0).text = <<"P3">>
    /\ header_line(1) = [kind |-> "dims", width |-> IMAGE_WIDTH,
                         height |-> image_height(IMAGE_WIDTH)]
    /\ header_line(2).text = <<"255">>
    /\ pc \in {"row", "map", "write", "finish", "done"} => Len(out) >= HEADER_LINES
    /\ pc = "done" =>
          /\ PixelLineCount = IMAGE_WIDTH * IMAGE_HEIGHT
          /\ { smp.px : smp \in UNION { BagToSet(pixel_line(n).color) :
                                          n \in 0 .. (PixelLineCount - 1) } } = AllPixels
          /\ \A n \in 0 .. (PixelLineCount - 1) :
                Cardinality(BagToSet(pixel_line(n).color)) = 1
    /\ image_height(REF_IMAGE_WIDTH) = 800
    /\ REF_IMAGE_WIDTH * image_height(REF_IMAGE_WIDTH) = 960000

\* "Done." has been printed and the file holds header and pixel lines
C3_Witness ==
    /\ pc = "done"
    /\ Len(out) = HEADER_LINES + IMAGE_WIDTH * IMAGE_HEIGHT
    /\ out[HEADER_LINES].text = <<"255">>

InUnit(x) == RLeq(R(0), x) /\ RLeq(x, R(1))

\* C4: the coordinates handed to cam.get_ray lie in [0, 1].
C4_UnitRange ==
    \A i \in Columns :
        tasks[i].ray # None => InUnit(tasks[i].ray[1].s) /\ InUnit(tasks[i].ray[1].t)

\* C5: a call of ray_color with depth = 0 returns black and queries neither
\* world.hit nor a material's scatter.
C5_DepthZeroBlack ==
    call.depth = 0 =>
        /\ nHit = 0 /\ nScatter = 0 /\ trace = <<>>
        /\ Len(stack) <= 1
        /\ rpc = "done" => retval = Black

\* a call with depth = 0 has returned
C5_Witness == rpc = "done" /\ call.depth = 0 /\ retval = Black

IsPrefix(a, b) == Len(a) <= Len(b) /\ SubSeq(b, 1, Len(a)) = a

AfterParse == {"parsed", "header", "row", "map", "write", "finish", "done"}

\* C6: the traversal starts from the world holding the ground sphere alone;
\* a step of xml_parser keeps every sphere of the world in place and adds
\* one sphere exactly when it accepts an object element; once xml_parser has
\* returned no step changes the world or the camera.
C6_WorldFrame ==
    /\ [](pc = "nodes" /\ cursor = 0 => world = <<ground_sphere>>)
    /\ [][ /\ pc = "nodes" =>
                /\ IsPrefix(world, world')
                /\ Len(world') =
                      Len(world) + (IF cursor' = cursor + 1 /\ CurNode.tag = "object"
                                    THEN 1 ELSE 0)
           /\ pc \in AfterParse => world' = world /\ cam' = cam /\ cam # None
         ]_vars

\* a render of a world of several spheres has finished
C6_Witness == pc = "done" /\ Len(world) > 2 /\ cam # None

\* the explicit loop over (current_ray, accumulated_attenuation,
\* remaining_depth), run on the answers of world.hit and scatter in tr;
\* rest is what it leaves of tr
RECURSIVE loop_color(_, _, _, _)
loop_color(current_ray, accumulated, remaining_depth, tr) ==
    IF remaining_depth = 0 THEN [color |-> CMul(accumulated, Black), rest |-> tr]
    ELSE IF tr = <<>> THEN [color |-> Black, rest |-> <<[kind |-> "starved"]>>]
    ELSE IF Head(tr).kind = "miss"
         THEN [color |-> CMul(accumulated, background(current_ray)), rest |-> Tail(tr)]
    ELSE IF Head(tr).kind = "absorb"
         THEN [color |-> CMul(accumulated, Black), rest |-> Tail(tr)]
    ELSE loop_color(Head(tr).ray, CMul(accumulated, Head(tr).att),
                    remaining_depth - 1, Tail(tr))

\* C7: the value ray_color returns is the value of the explicit loop run on
\* the same answers of world.hit and scatter, and the loop stops where the
\* recursion did.
C7_LoopEquivalent ==
    rpc = "done" =>
        loop_color(call.ray, White, call.depth, trace) = [color |-> retval, rest |-> <<>>]

\* a call that bounced twice and then missed has returned a colour
C7_Witness ==
    /\ rpc = "done" /\ Len(trace) = 3
    /\ trace[3].kind = "miss"
    /\ retval # Black /\ retval # background(call.ray)

C8_Bounded ==
    /\ ~underflow
    /\ nHit <= call.depth /\ nScatter <= call.depth
    /\ call.depth <= MAX_DEPTH
    /\ Len(stack) <= call.depth + 1
    /\ \A n \in 1 .. Len(stack) : stack[n].depth = call.depth - (n - 1)

\* C8: a call of ray_color returns; the n-th nested call runs with depth
\* lowered by n, never below zero, so a call with depth d makes at most d
\* world.hit queries and at most d scatter calls, and depth is at most
\* MAX_DEPTH.
C8_Terminates == []C8_Bounded /\ <>(rpc = "done")

\* a call with depth MAX_DEPTH that scattered at every bounce has returned
C8_Witness ==
    rpc = "done" /\ call.depth = MAX_DEPTH /\ nScatter = MAX_DEPTH /\ nHit = MAX_DEPTH

\* C9: the colour of a closure is the sum of the samples it has taken so
\* far, all of its own pixel (i, j) and taken with MAX_DEPTH, starting from
\* black; a pixel line holds exactly SAMPLES_PER_PIXEL such samples of its
\* pixel and is formatted with SAMPLES_PER_PIXEL.
C9_PixelIndependent ==
    /\ pc \in {"map", "write"} =>
          \A i \in Columns :
              /\ tasks[i].n <= SAMPLES_PER_PIXEL
              /\ tasks[i].pixel_color = SamplesOf(<<i, j>>, tasks[i].n)
              /\ tasks[i].st = "done" => tasks[i].n = SAMPLES_PER_PIXEL
    /\ \A n \in 0 .. (PixelLineCount - 1) :
          pixel_line(n) = format_color(SamplesOf(PixelAt(n), SAMPLES_PER_PIXEL),
                                       SAMPLES_PER_PIXEL)

\* in the last row, one closure has returned while another is mid-loop and
\* the rows above are written
C9_Witness ==
    /\ pc = "map" /\ j = 0 /\ PixelLineCount > 0
    /\ \E a, b \in Columns :
          /\ tasks[a].st = "done"
          /\ tasks[b].st = "run" /\ tasks[b].n > 0 /\ tasks[b].n < SAMPLES_PER_PIXEL

\* the nodes visited so far, the positions of the object elements among
\* them, and the material element in force at position p
Visited == SubSeq(scene.nodes, 1, cursor)
ObjectPositions ==
    SelectSeq([p \in 1 .. Len(Visited) |-> p], LAMBDA p : Visited[p].tag = "object")
MaterialsBefore(p) == { q \in 1 .. (p - 1) : Visited[q].tag = "material" }
Latest(S) == CHOOSE q \in S : \A o \in S : o <= q

\* the material document order binds the object at position p to: the one
\* built from the latest material element before p, that element's own
\* allocation, or the initial black Lambertian
CurrentMaterialAt(p) ==
    IF MaterialsBefore(p) = {} THEN Lambertian_new(BLACK_ARC, Zero3)
    ELSE LET q == Latest(MaterialsBefore(p))
         IN  material_of(Visited[q], FIRST_FREE_ARC + Cardinality(MaterialsBefore(q))).v

\* C10: the world is the ground sphere with its own gray Lambertian, then
\* one sphere per object element visited, in document order, each with the
\* element's centre and radius and bound to the material in force at the
\* element (shared by objects with no material element between them).
C10_MaterialBinding ==
    pc \in {"nodes", "parsed"} =>
        /\ Len(world) = 1 + Len(ObjectPositions)
        /\ world[1].center = Vec3_new(R(0), R(-1000), R(0))
        /\ world[1].radius = R(1000)
        /\ world[1].mat = [id |-> GROUND_ARC, kind |-> "lambertian",
                           albedo |-> Vec3_new(Half, Half, Half),
                           fuzz |-> R(0), ir |-> R(0)]
        /\ \A n \in 1 .. Len(ObjectPositions) :
              LET p == ObjectPositions[n]
              IN  /\ world[1 + n].center = value_parser(Visited[p].attrs["center"]).v
                  /\ world[1 + n].radius = ParseF64(Visited[p].attrs["radius"][1])
                  /\ world[1 + n].mat = CurrentMaterialAt(p)
                  /\ world[1 + n].mat.id # GROUND_ARC

\* xml_parser has returned a world where two different objects that follow one
\* material element share that material
C10_Witness ==
    /\ pc = "parsed"
    /\ \E b, c \in 2 .. Len(world) :
          /\ b < c /\ world[b].mat.id = world[c].mat.id
          /\ world[b].mat.id >= FIRST_FREE_ARC
          /\ world[b].center # world[c].center

====
